---------------------------- MODULE Spec2Model ----------------------------
(***************************************************************************)
(* Model of DF_F0_analysis_visualization.py: the module-level directory   *)
(* setup and analyze_data, the per-file pipeline that parses an ImageJ    *)
(* csv export, splits the two interleaved channels, subtracts the         *)
(* background, computes the baseline F0 and (Delta F)/F0, builds the time *)
(* axis, and writes a graph and a table per input file.                   *)
(*                                                                         *)
(* Modelling conventions.                                                  *)
(*  - A text line is a sequence of one-character strings.                  *)
(*  - A float is an extended rational <<n, d>>: d > 0 in lowest terms for  *)
(*    a finite value, <<1,0>> = inf, <<-1,0>> = -inf, <<0,0>> = nan.       *)
(*    Arithmetic is exact: IEEE rounding is not modelled, IEEE division by *)
(*    zero (numpy float64: inf/nan and a warning, no exception) is.        *)
(*  - The interpreter is Python 3: "/" is true division.                   *)
(*  - The file system is POSIX: shutil.move renames the table while it is  *)
(*    still open, and the rows reach the renamed file when it is closed.   *)
(***************************************************************************)
EXTENDS Integers, Sequences, FiniteSets, TLC

(***************************************************************************)
(* Bounds of the model.                                                    *)
(***************************************************************************)
MaxRows == 9
MaxLineLen == 3
MaxFiles == 3
MaxRuns == 2

(***************************************************************************)
(* Program constants.                                                      *)
(***************************************************************************)
number_of_initial_frames == 3
Hz == 1

(***************************************************************************)
(* Extended rational arithmetic (Python / numpy float64, exact).           *)
(***************************************************************************)
Abs(x) == IF x < 0 THEN -x ELSE x

Sign(x) == IF x < 0 THEN -1 ELSE IF x > 0 THEN 1 ELSE 0

RECURSIVE GCD(_, _)
GCD(a, b) == IF b = 0 THEN a ELSE GCD(b, a % b)

\* The float with numerator n and denominator d (d = 0: inf, -inf or nan).
Rat(n, d) ==
    IF d = 0 THEN <<Sign(n), 0>>
    ELSE LET g == GCD(Abs(n), Abs(d))
             s == IF d < 0 THEN -1 ELSE 1
         IN  <<(s * n) \div g, (s * d) \div g>>

FromInt(n) == <<n, 1>>

IsFinite(x) == x[2] # 0

IsNaN(x) == x = <<0, 0>>

\* x + y; inf + (-inf) and anything with nan are nan.
RAdd(x, y) ==
    IF IsFinite(x) /\ IsFinite(y) THEN Rat(x[1] * y[2] + y[1] * x[2], x[2] * y[2])
    ELSE IF IsNaN(x) \/ IsNaN(y) THEN <<0, 0>>
    ELSE IF ~IsFinite(x) /\ ~IsFinite(y)
         THEN (IF x = y THEN x ELSE <<0, 0>>)
    ELSE IF IsFinite(x) THEN y ELSE x

RNeg(x) == <<-x[1], x[2]>>

RSub(x, y) == RAdd(x, RNeg(y))

\* x * y; 0 * inf is nan.
RMul(x, y) ==
    IF IsFinite(x) /\ IsFinite(y) THEN Rat(x[1] * y[1], x[2] * y[2])
    ELSE IF IsNaN(x) \/ IsNaN(y) \/ x[1] = 0 \/ y[1] = 0 THEN <<0, 0>>
    ELSE <<Sign(x[1]) * Sign(y[1]), 0>>

\* x / y for numpy float64: a finite non-zero x over 0 is +-inf, 0/0 is nan,
\* and nothing is raised.
RDiv(x, y) ==
    IF IsNaN(x) \/ IsNaN(y) THEN <<0, 0>>
    ELSE IF IsFinite(x) /\ IsFinite(y)
         THEN (IF y[1] = 0 THEN <<Sign(x[1]), 0>>
               ELSE Rat(x[1] * y[2], x[2] * y[1]))
    ELSE IF IsFinite(x) THEN <<0, 1>>
    ELSE IF IsFinite(y) THEN <<Sign(x[1]) * (IF y[1] < 0 THEN -1 ELSE 1), 0>>
    ELSE <<0, 0>>

\* The least integer >= the finite float x.
Ceil(x) == -((-x[1]) \div x[2])

(***************************************************************************)
(* Text: str.split(','), int() and float().                                *)
(***************************************************************************)
Digit == {"0", "1", "2", "3", "4", "5", "6", "7", "8", "9"}

DigitVal == "0" :> 0 @@ "1" :> 1 @@ "2" :> 2 @@ "3" :> 3 @@ "4" :> 4 @@
            "5" :> 5 @@ "6" :> 6 @@ "7" :> 7 @@ "8" :> 8 @@ "9" :> 9

Whitespace == {" ", "\n"}

\* line.split(','): the fields between the commas, at least one.
RECURSIVE SplitFrom(_, _, _)
SplitFrom(line, i, cur) ==
    IF i > Len(line) THEN <<cur>>
    ELSE IF line[i] = "," THEN <<cur>> \o SplitFrom(line, i + 1, <<>>)
    ELSE SplitFrom(line, i + 1, Append(cur, line[i]))

Split(line) == SplitFrom(line, 1, <<>>)

\* str.strip() as int() and float() apply it to their argument.
RECURSIVE LStrip(_)
LStrip(s) ==
    IF s # <<>> /\ Head(s) \in Whitespace THEN LStrip(Tail(s)) ELSE s

RECURSIVE RStrip(_)
RStrip(s) ==
    IF s # <<>> /\ s[Len(s)] \in Whitespace
    THEN RStrip(SubSeq(s, 1, Len(s) - 1)) ELSE s

Strip(s) == RStrip(LStrip(s))

AllDigits(s) == \A i \in 1..Len(s) : s[i] \in Digit

RECURSIVE DigitsValue(_, _)
DigitsValue(s, acc) ==
    IF s = <<>> THEN acc ELSE DigitsValue(Tail(s), 10 * acc + DigitVal[Head(s)])

RECURSIVE Pow10(_)
Pow10(k) == IF k = 0 THEN 1 ELSE 10 * Pow10(k - 1)

Unsigned(s) == IF s # <<>> /\ Head(s) = "-" THEN Tail(s) ELSE s

SignOf(s) == IF s # <<>> /\ Head(s) = "-" THEN -1 ELSE 1

\* int(s) succeeds: optional sign, then one or more digits.
IntParses(s) ==
    LET u == Unsigned(Strip(s)) IN u # <<>> /\ AllDigits(u)

IntValue(s) == SignOf(Strip(s)) * DigitsValue(Unsigned(Strip(s)), 0)

DotAt(u) == IF \E i \in 1..Len(u) : u[i] = "."
            THEN CHOOSE i \in 1..Len(u) :
                     u[i] = "." /\ \A j \in 1..(i - 1) : u[j] # "."
            ELSE 0

\* float(s) succeeds: optional sign, then digits with at most one point and
\* at least one digit ("12", "1.5", "1.", ".5").  Exponents, underscores and
\* the words inf and nan, which float() also accepts, are outside the
\* characters the input lines are drawn from.
FloatParses(s) ==
    LET u == Unsigned(Strip(s))
        k == DotAt(u)
    IN  IF k = 0 THEN u # <<>> /\ AllDigits(u)
        ELSE /\ AllDigits(SubSeq(u, 1, k - 1))
             /\ AllDigits(SubSeq(u, k + 1, Len(u)))
             /\ Len(u) > 1

FloatValue(s) ==
    LET u == Unsigned(Strip(s))
        k == DotAt(u)
        ip == IF k = 0 THEN u ELSE SubSeq(u, 1, k - 1)
        fp == IF k = 0 THEN <<>> ELSE SubSeq(u, k + 1, Len(u))
    IN  Rat(SignOf(Strip(s)) * DigitsValue(ip \o fp, 0), Pow10(Len(fp)))


(***************************************************************************)
(* Python and numpy sequence operations used by analyze_data.              *)
(***************************************************************************)
Min(a, b) == IF a < b THEN a ELSE b

\* s[start::step] for start >= 0 and step > 0 (start is a 0-based index).
StepSlice(s, start, step) ==
    LET n == IF Len(s) > start THEN (Len(s) - start + step - 1) \div step ELSE 0
    IN  [k \in 1..n |-> s[start + 1 + (k - 1) * step]]

\* s[:n] and s[n:] for n >= 0.
Prefix(s, n) == SubSeq(s, 1, Min(n, Len(s)))

Suffix(s, n) == SubSeq(s, n + 1, Len(s))

\* np.subtract(a, b) on 1-d float arrays: elementwise for equal lengths, a
\* length-1 operand is broadcast to the other's length (to length 0 as
\* well), and any other pair of lengths raises ValueError.
BroadcastOk(a, b) == Len(a) = Len(b) \/ Len(a) = 1 \/ Len(b) = 1

BroadcastLen(a, b) ==
    IF Len(a) = Len(b) THEN Len(a) ELSE IF Len(a) = 1 THEN Len(b) ELSE Len(a)

NpSubtract(a, b) ==
    [i \in 1..BroadcastLen(a, b) |->
        RSub(IF Len(a) = 1 THEN a[1] ELSE a[i], IF Len(b) = 1 THEN b[1] ELSE b[i])]

\* F_sum = 0; for F in values: F_sum += F
RECURSIVE SumLoop(_, _)
SumLoop(values, acc) ==
    IF values = <<>> THEN acc ELSE SumLoop(Tail(values), RAdd(acc, Head(values)))

\* F0 = F_sum / number_of_initial_frames over odd_minus_even[:n].
Baseline(net) ==
    RDiv(SumLoop(Prefix(net, number_of_initial_frames), FromInt(0)),
         FromInt(number_of_initial_frames))

\* A variant that leaves the baseline unsubtracted: (F / F0) * 100.
F_over_F0_percent(F, f0) == RMul(RDiv(F, f0), FromInt(100))

\* ((F - F0) / F0) * 100
DeltaF_over_F0_percent(F, f0) == RMul(RDiv(RSub(F, f0), f0), FromInt(100))

\* The list appended to by the loop over odd_minus_even[n:].
RECURSIVE NormalizeLoop(_, _, _)
NormalizeLoop(values, f0, acc) ==
    IF values = <<>> THEN acc
    ELSE NormalizeLoop(Tail(values), f0,
                       Append(acc, DeltaF_over_F0_percent(Head(values), f0)))

\* np.arange(start, stop, step) for finite floats and step > 0:
\* ceil((stop - start) / step) values start + i * step, none when that is <= 0.
ARangeLen(start, stop, step) ==
    LET q == Ceil(RDiv(RSub(stop, start), step)) IN IF q > 0 THEN q ELSE 0

ARange(start, stop, step) ==
    [i \in 1..ARangeLen(start, stop, step) |->
        RAdd(start, RMul(FromInt(i - 1), step))]

\* imaging_time_in_sec = frame_list[-1] / (2 * Hz) - number_of_initial_frames
ImagingTime(last_frame) ==
    RSub(RDiv(FromInt(last_frame), FromInt(2 * Hz)),
         FromInt(number_of_initial_frames))

\* start_time_sec = 1 / Hz
StartTime == RDiv(FromInt(1), FromInt(Hz))

\* time_sec = np.arange(start_time_sec, imaging_time_in_sec + 1, start_time_sec)
TimeSec(last_frame) ==
    ARange(StartTime, RAdd(ImagingTime(last_frame), FromInt(1)), StartTime)

\* zip(a, b): pairs up to the shorter length.
Zip(a, b) == [i \in 1..Min(Len(a), Len(b)) |-> <<a[i], b[i]>>]

(***************************************************************************)
(* File names.  An input file's name is its stem (an integer standing for  *)
(* the characters before the extension; stems order as the names do)       *)
(* followed by the four characters ".csv".                                 *)
(***************************************************************************)
CsvExt == <<".", "c", "s", "v">>

CsvName(stem) == <<stem>> \o CsvExt

\* str(imaging_file)[:-4]
BaseName(name) == SubSeq(name, 1, Len(name) - 4)

\* str(imaging_file)[:-4] + '_graph.png'
GraphName(name) == BaseName(name) \o <<"_graph.png">>

\* str(imaging_file)[:-4] + '_DeltaF_F0_vs_time.csv'
TableName(name) == BaseName(name) \o <<"_DeltaF_F0_vs_time.csv">>

\* Order of file names under sorted().
NameLess(a, b) == a[1] < b[1]

\* A variant without sorted(): the files in the directory's own order.
UnsortedNames(listing) == listing

\* sorted(glob.glob('*.csv')) for a directory listing in any order.
SortedNames(listing) == SortSeq(listing, NameLess)

\* The orders in which a directory holding the files `names` may list them.
Listings(names) ==
    {s \in [1..Cardinality(names) -> names] :
        \A i, j \in DOMAIN s : i # j => s[i] # s[j]}

\* A directory is a set of <<name, content>> entries, one per name.
Names(dir) == {e[1] : e \in dir}

HasFile(dir, name) == name \in Names(dir)

\* Create or truncate-and-write `name`.
WriteFile(dir, name, content) ==
    {e \in dir : e[1] # name} \cup {<<name, content>>}

RemoveFile(dir, name) == {e \in dir : e[1] # name}

ContentOf(dir, name) == (CHOOSE e \in dir : e[1] = name)[2]

(***************************************************************************)
(* State.                                                                  *)
(***************************************************************************)
VARIABLES
    inputDir,             \* data_path: the set of <<csv name, lines>> entries
    resultsDirs,          \* which of Results, data_analysis, graphs exist
    rootDir,              \* files in Results/
    graphsDir,            \* files in Results/graphs/
    dataDir,              \* files in Results/data_analysis/
    run,                  \* which execution of the script this is (1, 2, ...)
    outcomes,             \* how each earlier execution ended
    pc,                   \* position of the running script
    error,                \* the exception that ended it, or "none"
    filenames,            \* sorted(glob.glob('*.csv'))
    fileIdx,              \* position of the for loop in filenames
    opened,               \* the input files opened so far by this execution
    imaging_file,
    lines,                \* remaining lines of mean_values
    frame_list,
    mean_list,
    mean_list_odd,
    mean_list_even,
    odd_minus_even,
    F0,
    DeltaF_over_F0_list,
    time_sec

fsVars == <<inputDir, resultsDirs, rootDir, graphsDir, dataDir>>

passVars == <<frame_list, mean_list, mean_list_odd, mean_list_even,
              odd_minus_even, F0, DeltaF_over_F0_list, time_sec>>

loopVars == <<filenames, fileIdx, opened, imaging_file, lines>>

vars == <<inputDir, resultsDirs, rootDir, graphsDir, dataDir, run, outcomes,
          pc, error, filenames, fileIdx, opened, imaging_file, lines,
          frame_list, mean_list, mean_list_odd, mean_list_even,
          odd_minus_even, F0, DeltaF_over_F0_list, time_sec>>

\* A name not yet bound.
Unbound == <<>>

(***************************************************************************)
(* Input files.                                                            *)
(***************************************************************************)
RECURSIVE Fmt(_)
\* The decimal digits of a natural number.
Fmt(n) ==
    LET d == CHOOSE c \in Digit : DigitVal[c] = n % 10
    IN  IF n < 10 THEN <<d>> ELSE Append(Fmt(n \div 10), d)

\* One exported row: "<index>,<mean>\n".
Row(index, mean) == Fmt(index) \o <<",">> \o Fmt(mean) \o <<"\n">>

\* The header line of an export.
HeaderLine == <<" ", ",", "M", "e", "a", "n", "\n">>

\* What the first column counts: rows from 1, rows from 0, or frames from 1
\* (both rows of a frame carrying the frame's number).
IndexSchemes == {"row1", "row0", "frame"}

IndexOf(scheme, i) ==
    IF scheme = "row1" THEN i
    ELSE IF scheme = "row0" THEN i - 1
    ELSE (i + 1) \div 2

\* Mean intensities the generated rows draw from.
Intensities == {1, 2}

\* The export with the given means, one per row, in order.
Export(means, scheme, header) ==
    (IF header THEN <<HeaderLine>> ELSE <<>>)
    \o [i \in 1..Len(means) |-> Row(IndexOf(scheme, i), means[i])]

GeneratedExports ==
    UNION {{Export(means, scheme, header) :
               means \in [1..n -> Intensities],
               scheme \in IndexSchemes, header \in BOOLEAN} : n \in 0..MaxRows}

\* Two recordings of six frames: interleaved signal, reference pairs.
ExampleRaw == <<100, 20, 102, 22, 98, 19, 150, 25, 200, 30, 250, 35>>

ExampleNetRaw == <<10, 0, 12, 0, 11, 0, 20, 0, 30, 0, 40, 0>>

ExampleExports ==
    {Export(ExampleRaw, "row1", TRUE), Export(ExampleNetRaw, "row1", FALSE)}

\* Characters of the lines the parser is exercised on.
LineAlphabet == {"1", "a", ",", ".", "-", " "}

TextLines ==
    UNION {{Append(l, "\n") : l \in [1..n -> LineAlphabet]} : n \in 0..MaxLineLen}

\* A line of letters in both fields.
LettersLine == <<"a", "b", "c", ",", "x", "y", "z", "\n">>

\* A file with one arbitrary line between two well-formed rows.
TextExports ==
    {<<Row(1, 7), l, Row(3, 9)>> : l \in TextLines \cup {LettersLine, HeaderLine}}

\* Files a batch is made of: a good recording of four frames, an empty
\* file, a recording with an unpaired last row, one of three frames only.
BatchExports ==
    {Export(<<2, 1, 2, 1, 2, 1, 1, 2>>, "row1", TRUE),
     <<>>,
     Export(<<2, 1, 2, 1, 2>>, "row1", FALSE),
     Export(<<2, 1, 2, 1, 2, 1>>, "row1", FALSE)}

(***************************************************************************)
(* Initial states: a fresh data directory, the script not yet started.     *)
(***************************************************************************)
InitProcess ==
    /\ pc = "start"
    /\ error = "none"
    /\ filenames = <<>>
    /\ fileIdx = 0
    /\ opened = <<>>
    /\ imaging_file = Unbound
    /\ lines = <<>>
    /\ frame_list = Unbound
    /\ mean_list = Unbound
    /\ mean_list_odd = Unbound
    /\ mean_list_even = Unbound
    /\ odd_minus_even = Unbound
    /\ F0 = Unbound
    /\ DeltaF_over_F0_list = Unbound
    /\ time_sec = Unbound

InitFs ==
    /\ resultsDirs = {}
    /\ rootDir = {}
    /\ graphsDir = {}
    /\ dataDir = {}
    /\ run = 1
    /\ outcomes = <<>>

\* One recording in the data directory.
Init ==
    /\ \E x \in GeneratedExports \cup ExampleExports :
           inputDir = {<<CsvName(1), x>>}
    /\ InitFs
    /\ InitProcess

\* One file of arbitrary text lines.
InitParse ==
    /\ \E x \in TextExports : inputDir = {<<CsvName(1), x>>}
    /\ InitFs
    /\ InitProcess

\* A batch of up to MaxFiles files.
InitBatch ==
    /\ \E n \in 0..MaxFiles : \E c \in [1..n -> BatchExports] :
           inputDir = {<<CsvName(i), c[i]>> : i \in 1..n}
    /\ InitFs
    /\ InitProcess

(***************************************************************************)
(* The script, statement group by statement group.                         *)
(***************************************************************************)
\* An uncaught exception ends the script where it stands.
Raise(exc) == pc' = "crashed" /\ error' = exc

\* A variant whose directory creation tolerates existing directories.
ModuleSetupExistOk ==
    /\ pc = "start"
    /\ resultsDirs' = {"Results", "data_analysis", "graphs"}
    /\ \E listing \in Listings(Names(inputDir)) :
           filenames' = SortedNames(listing)
    /\ fileIdx' = 1
    /\ pc' = "loop"
    /\ UNCHANGED <<inputDir, rootDir, graphsDir, dataDir, run, outcomes,
                   error, opened, imaging_file, lines, passVars>>

\* Lines 33-56: os.mkdir of Results (FileExistsError when it exists), of
\* data_analysis and of graphs, then filenames = sorted(glob.glob('*.csv')).
ModuleSetup ==
    /\ pc = "start"
    /\ IF "Results" \in resultsDirs
       THEN /\ Raise("FileExistsError")
            /\ UNCHANGED <<resultsDirs, filenames, fileIdx>>
       ELSE /\ resultsDirs' = {"Results", "data_analysis", "graphs"}
            /\ \E listing \in Listings(Names(inputDir)) :
                   filenames' = SortedNames(listing)
            /\ fileIdx' = 1
            /\ pc' = "loop"
            /\ UNCHANGED error
    /\ UNCHANGED <<inputDir, rootDir, graphsDir, dataDir, run, outcomes,
                   opened, imaging_file, lines, passVars>>

\* Lines 61-77: the for loop takes the next file, opens it and empties the
\* four lists.
BeginPass ==
    /\ pc = "loop"
    /\ fileIdx <= Len(filenames)
    /\ imaging_file' = filenames[fileIdx]
    /\ opened' = Append(opened, filenames[fileIdx])
    /\ lines' = ContentOf(inputDir, filenames[fileIdx])
    /\ mean_list' = <<>>
    /\ frame_list' = <<>>
    /\ mean_list_odd' = <<>>
    /\ mean_list_even' = <<>>
    /\ pc' = "parse"
    /\ UNCHANGED <<fsVars, run, outcomes, error, filenames, fileIdx,
                   odd_minus_even, F0, DeltaF_over_F0_list, time_sec>>

\* Line 61 and 188: the for loop is exhausted and the script ends.
FinishBatch ==
    /\ pc = "loop"
    /\ fileIdx > Len(filenames)
    /\ pc' = "done"
    /\ UNCHANGED <<fsVars, run, outcomes, error, loopVars, passVars>>

\* Lines 82-86: frame_list after the first try block (a bare except passes).
FrameListAfter(list, splitline) ==
    IF IntParses(splitline[1]) THEN Append(list, IntValue(splitline[1]))
    ELSE list

\* A variant with both conversions in one try block: a failure of the
\* first skips the second.
MeanListAfterOneTry(list, splitline) ==
    IF IntParses(splitline[1]) /\ Len(splitline) >= 2 /\ FloatParses(splitline[2])
    THEN Append(list, FloatValue(splitline[2]))
    ELSE list

\* Lines 88-92: mean_list after the second try block (IndexError for a line
\* without a second field and ValueError are both passed over).
MeanListAfter(list, splitline) ==
    IF Len(splitline) >= 2 /\ FloatParses(splitline[2])
    THEN Append(list, FloatValue(splitline[2]))
    ELSE list

\* Lines 79-92: one iteration of the loop over the file's lines.
ParseLine ==
    /\ pc = "parse"
    /\ lines # <<>>
    /\ LET splitline == Split(Head(lines))
       IN  /\ frame_list' = FrameListAfter(frame_list, splitline)
           /\ mean_list' = MeanListAfter(mean_list, splitline)
    /\ lines' = Tail(lines)
    /\ UNCHANGED <<fsVars, run, outcomes, pc, error, filenames, fileIdx,
                   opened, imaging_file, mean_list_odd, mean_list_even,
                   odd_minus_even, F0, DeltaF_over_F0_list, time_sec>>

\* A variant that starts the signal channel at the second entry.
SignalChannelShifted(list) == StepSlice(list, 1, 2)

\* Lines 98-99: the entries of mean_list[::2] appended in order.
SignalChannel(list) == StepSlice(list, 0, 2)

\* Lines 103-104: the entries of mean_list[1::2] appended in order.
ReferenceChannel(list) == StepSlice(list, 1, 2)

\* Lines 94-104: close the file, split mean_list into the two channels.
SplitChannels ==
    /\ pc = "parse"
    /\ lines = <<>>
    /\ mean_list_odd' = SignalChannel(mean_list)
    /\ mean_list_even' = ReferenceChannel(mean_list)
    /\ pc' = "subtract"
    /\ UNCHANGED <<fsVars, run, outcomes, error, loopVars, frame_list,
                   mean_list, odd_minus_even, F0, DeltaF_over_F0_list,
                   time_sec>>

\* Lines 106-112: odd_minus_even = np.subtract(odd array, even array).
Subtract ==
    /\ pc = "subtract"
    /\ IF BroadcastOk(mean_list_odd, mean_list_even)
       THEN /\ odd_minus_even' = NpSubtract(mean_list_odd, mean_list_even)
            /\ pc' = "baseline"
            /\ UNCHANGED error
       ELSE /\ Raise("ValueError")
            /\ UNCHANGED odd_minus_even
    /\ UNCHANGED <<fsVars, run, outcomes, loopVars, frame_list, mean_list,
                   mean_list_odd, mean_list_even, F0, DeltaF_over_F0_list,
                   time_sec>>

\* Lines 119-127: F0 from the first number_of_initial_frames values.
ComputeBaseline ==
    /\ pc = "baseline"
    /\ F0' = Baseline(odd_minus_even)
    /\ pc' = "normalize"
    /\ UNCHANGED <<fsVars, run, outcomes, error, loopVars, frame_list,
                   mean_list, mean_list_odd, mean_list_even, odd_minus_even,
                   DeltaF_over_F0_list, time_sec>>

\* Lines 130-137: (Delta F)/F0 in percent for every later value.
Normalize ==
    /\ pc = "normalize"
    /\ DeltaF_over_F0_list' =
           NormalizeLoop(Suffix(odd_minus_even, number_of_initial_frames),
                         F0, <<>>)
    /\ pc' = "time"
    /\ UNCHANGED <<fsVars, run, outcomes, error, loopVars, frame_list,
                   mean_list, mean_list_odd, mean_list_even, odd_minus_even,
                   F0, time_sec>>

\* Lines 143-153: the time axis from frame_list[-1] (IndexError when
\* frame_list is empty).
BuildTimeAxis ==
    /\ pc = "time"
    /\ IF frame_list = <<>>
       THEN /\ Raise("IndexError")
            /\ UNCHANGED time_sec
       ELSE /\ time_sec' = TimeSec(frame_list[Len(frame_list)])
            /\ pc' = "plot"
            /\ UNCHANGED error
    /\ UNCHANGED <<fsVars, run, outcomes, loopVars, frame_list, mean_list,
                   mean_list_odd, mean_list_even, odd_minus_even, F0,
                   DeltaF_over_F0_list>>

\* A variant that goes on to the table without saving the figure.
PlotWithoutSave ==
    /\ pc = "plot"
    /\ IF Len(time_sec) = Len(DeltaF_over_F0_list)
       THEN pc' = "write" /\ UNCHANGED error
       ELSE Raise("ValueError")
    /\ UNCHANGED <<fsVars, run, outcomes, loopVars, passVars>>

\* Lines 156-160: ax.plot(time_sec, DeltaF_over_F0_array) raises ValueError
\* when x and y differ in length.
Plot ==
    /\ pc = "plot"
    /\ IF Len(time_sec) = Len(DeltaF_over_F0_list)
       THEN pc' = "savefig" /\ UNCHANGED error
       ELSE Raise("ValueError")
    /\ UNCHANGED <<fsVars, run, outcomes, loopVars, passVars>>

\* What the figure shows and what the table holds, tagged with the
\* execution that produced it.
GraphContent == <<run, time_sec, DeltaF_over_F0_list>>

TableContent == <<run, Zip(time_sec, DeltaF_over_F0_list)>>

\* Lines 163-166: fig.savefig(graph) in Results/graphs.
SaveGraph ==
    /\ pc = "savefig"
    /\ graphsDir' = WriteFile(graphsDir, GraphName(imaging_file), GraphContent)
    /\ pc' = "write"
    /\ UNCHANGED <<inputDir, resultsDirs, rootDir, dataDir, run, outcomes,
                   error, loopVars, passVars>>

\* Lines 172-184: the table is opened for writing in Results and its rows
\* written.
WriteTable ==
    /\ pc = "write"
    /\ rootDir' = WriteFile(rootDir, TableName(imaging_file), TableContent)
    /\ pc' = "move"
    /\ UNCHANGED <<inputDir, resultsDirs, graphsDir, dataDir, run, outcomes,
                   error, loopVars, passVars>>

\* Line 185: shutil.move(table, 'data_analysis') raises shutil.Error when the
\* directory already holds a file of that name; otherwise the table is
\* renamed into it and the for loop goes on.
MoveTable ==
    /\ pc = "move"
    /\ IF HasFile(dataDir, TableName(imaging_file))
       THEN /\ Raise("shutil.Error")
            /\ UNCHANGED <<rootDir, dataDir, fileIdx>>
       ELSE /\ dataDir' = WriteFile(dataDir, TableName(imaging_file),
                                    ContentOf(rootDir, TableName(imaging_file)))
            /\ rootDir' = RemoveFile(rootDir, TableName(imaging_file))
            /\ fileIdx' = fileIdx + 1
            /\ pc' = "loop"
            /\ UNCHANGED error
    /\ UNCHANGED <<inputDir, resultsDirs, graphsDir, run, outcomes, filenames,
                   opened, imaging_file, lines, passVars>>

\* The operating system refuses a write (disk full, permissions): savefig,
\* open or shutil.move raises OSError before changing anything.
IOFailure ==
    /\ pc \in {"savefig", "write", "move"}
    /\ Raise("OSError")
    /\ UNCHANGED <<fsVars, run, outcomes, loopVars, passVars>>

\* The user runs the script again on the same data directory after it has
\* ended: a new process, the file system as the last run left it.
Rerun ==
    /\ pc \in {"done", "crashed"}
    /\ run < MaxRuns
    /\ run' = run + 1
    /\ outcomes' = Append(outcomes, pc)
    /\ pc' = "start"
    /\ error' = "none"
    /\ filenames' = <<>>
    /\ fileIdx' = 0
    /\ opened' = <<>>
    /\ imaging_file' = Unbound
    /\ lines' = <<>>
    /\ frame_list' = Unbound
    /\ mean_list' = Unbound
    /\ mean_list_odd' = Unbound
    /\ mean_list_even' = Unbound
    /\ odd_minus_even' = Unbound
    /\ F0' = Unbound
    /\ DeltaF_over_F0_list' = Unbound
    /\ time_sec' = Unbound
    /\ UNCHANGED fsVars

Next ==
    \/ ModuleSetup
    \/ BeginPass
    \/ FinishBatch
    \/ ParseLine
    \/ SplitChannels
    \/ Subtract
    \/ ComputeBaseline
    \/ Normalize
    \/ BuildTimeAxis
    \/ Plot
    \/ SaveGraph
    \/ WriteTable
    \/ MoveTable
    \/ IOFailure
    \/ Rerun

Spec == Init /\ [][Next]_vars

SpecParse == InitParse /\ [][Next]_vars

SpecBatch == InitBatch /\ [][Next]_vars

(***************************************************************************)
(* Properties.                                                             *)
(***************************************************************************)
\* Positions at which the named result of the current pass is bound.
AfterSubtract == {"baseline", "normalize", "time", "plot", "savefig", "write", "move"}

AfterNormalize == {"time", "plot", "savefig", "write", "move"}

AfterTimeAxis == {"plot", "savefig", "write", "move"}

\* The lists hold a whole file: a pass has begun and its parse loop is over.
Parsed == pc \notin {"start", "parse"} /\ imaging_file # Unbound

\* The file of the current pass, as it stands in the data directory.
CurrentContent == ContentOf(inputDir, imaging_file)

Last(s) == s[Len(s)]

Floats(ints) == [i \in 1..Len(ints) |-> <<ints[i], 1>>]

\* Artifact names written out, from an input file's stem.
GraphOf(name) == <<name[1], "_graph.png">>

TableOf(name) == <<name[1], "_DeltaF_F0_vs_time.csv">>

HasArtifact(name) ==
    \/ HasFile(graphsDir, GraphOf(name))
    \/ HasFile(rootDir, TableOf(name))
    \/ HasFile(dataDir, TableOf(name))

\* The sum of the first three net values, as a fraction's numerator over the
\* common denominator (its sign and zeroness are those of the sum).
FirstThreeSum(net) ==
    net[1][1] * net[2][2] * net[3][2] + net[2][1] * net[1][2] * net[3][2]
        + net[3][1] * net[1][2] * net[2][2]

\* Every row of the current file carries an integer index and a real
\* intensity, two rows per frame, more than number_of_initial_frames frames.
ValidInput ==
    /\ Len(frame_list) = Len(CurrentContent)
    /\ Len(mean_list) = Len(CurrentContent)
    /\ Len(CurrentContent) % 2 = 0
    /\ Len(CurrentContent) \div 2 > number_of_initial_frames

\* C1: for every valid input the time axis has exactly as many elements as
\* the normalized-signal list.
C1_TimeAxisMatchesSignal ==
    (pc \in AfterTimeAxis /\ ValidInput)
        => Len(time_sec) = Len(DeltaF_over_F0_list)

\* C2: with more than number_of_initial_frames net values and a non-zero
\* baseline, F0 times number_of_initial_frames is the sum of the first
\* number_of_initial_frames net values, the normalized list has
\* len(net) - number_of_initial_frames elements, its j-th satisfying
\* value * F0 = (net[n + j] - F0) * 100 in order; the net signal
\* 10, 12, 11, 20, 30, 40 gives F0 = 11 and 900/11, 1900/11, 2900/11.
C2_BaselineAndNormalization ==
    (/\ pc \in AfterNormalize
     /\ Len(odd_minus_even) > number_of_initial_frames
     /\ FirstThreeSum(odd_minus_even) # 0)
        => /\ IsFinite(F0)
           /\ F0[1] * odd_minus_even[1][2] * odd_minus_even[2][2]
                    * odd_minus_even[3][2] * number_of_initial_frames
                  = FirstThreeSum(odd_minus_even) * F0[2]
           /\ Len(DeltaF_over_F0_list)
                  = Len(odd_minus_even) - number_of_initial_frames
           /\ \A j \in 1..Len(DeltaF_over_F0_list) :
                  LET v == DeltaF_over_F0_list[j]
                      F == odd_minus_even[number_of_initial_frames + j]
                  IN  /\ IsFinite(v)
                      /\ v[1] * F0[1] * F[2] * F0[2]
                             = 100 * (F[1] * F0[2] - F0[1] * F[2]) * v[2] * F0[2]
           /\ (odd_minus_even = Floats(<<10, 12, 11, 20, 30, 40>>)
                  => /\ F0 = <<11, 1>>
                     /\ DeltaF_over_F0_list
                            = <<<<900, 11>>, <<1900, 11>>, <<2900, 11>>>>)

C2_Witness ==
    /\ pc = "time"
    /\ odd_minus_even = Floats(<<10, 12, 11, 20, 30, 40>>)
    /\ Len(DeltaF_over_F0_list) = 3

\* C3: for an intensity sequence of even length 2n the signal channel holds
\* positions 0, 2, 4, ... and the reference channel positions 1, 3, 5, ...,
\* both of length n in file order, and the net signal has length n with
\* net[i] = raw[2i] - raw[2i + 1]; the raw values 100, 20, 102, 22, 98, 19,
\* 150, 25, 200, 30, 250, 35 give the net signal 80, 80, 79, 125, 170, 215.
C3_ChannelSplit ==
    (pc \in AfterSubtract /\ Len(mean_list) % 2 = 0)
        => LET n == Len(mean_list) \div 2
           IN  /\ Len(mean_list_odd) = n
               /\ Len(mean_list_even) = n
               /\ Len(odd_minus_even) = n
               /\ \A i \in 1..n :
                      LET a == mean_list[2 * i - 1]
                          b == mean_list[2 * i]
                          d == odd_minus_even[i]
                      IN  /\ mean_list_odd[i] = a
                          /\ mean_list_even[i] = b
                          /\ IsFinite(d)
                          /\ d[1] * a[2] * b[2] = (a[1] * b[2] - b[1] * a[2]) * d[2]
               /\ (mean_list = Floats(ExampleRaw)
                      => /\ mean_list_odd = Floats(<<100, 102, 98, 150, 200, 250>>)
                         /\ mean_list_even = Floats(<<20, 22, 19, 25, 30, 35>>)
                         /\ odd_minus_even = Floats(<<80, 80, 79, 125, 170, 215>>))

C3_Witness ==
    /\ pc = "baseline"
    /\ mean_list = Floats(ExampleRaw)
    /\ Len(odd_minus_even) = 6

\* C4: every step of the parse loop treats the two fields of its line
\* independently and never ends the loop: frame_list gains one entry exactly
\* when field 0 parses as an integer and mean_list gains one exactly when
\* field 1 exists and parses as a real, earlier entries stay in place, a
\* line failing both (the letters line, the header line) changes neither
\* list and raises nothing, and the rows before and after such a line are
\* in the lists when the loop ends.
C4_IndependentFieldParse ==
    [][/\ (pc = "parse" /\ lines # <<>>)
            => LET fields == Split(Head(lines))
                   gainsFrame == IntParses(fields[1])
                   gainsMean == Len(fields) >= 2 /\ FloatParses(fields[2])
               IN  /\ pc' = "parse"
                   /\ error' = "none"
                   /\ lines' = Tail(lines)
                   /\ Len(frame_list') = Len(frame_list) + (IF gainsFrame THEN 1 ELSE 0)
                   /\ Len(mean_list') = Len(mean_list) + (IF gainsMean THEN 1 ELSE 0)
                   /\ SubSeq(frame_list', 1, Len(frame_list)) = frame_list
                   /\ SubSeq(mean_list', 1, Len(mean_list)) = mean_list
                   /\ (Head(lines) \in {LettersLine, HeaderLine}
                          => frame_list' = frame_list /\ mean_list' = mean_list)
                   /\ (Head(lines) = <<",", "1", "\n">>
                          => frame_list' = frame_list
                             /\ mean_list' = Append(mean_list, <<1, 1>>))
                   /\ (Head(lines) = <<"1", ",", "a", "\n">>
                          => frame_list' = Append(frame_list, 1)
                             /\ mean_list' = mean_list)
       /\ (pc = "parse" /\ pc' = "subtract" /\ Len(CurrentContent) = 3
              /\ CurrentContent[1] = Row(1, 7) /\ CurrentContent[3] = Row(3, 9))
            => /\ Head(frame_list) = 1 /\ Last(frame_list) = 3
               /\ Head(mean_list) = <<7, 1>> /\ Last(mean_list) = <<9, 1>>
      ]_vars

C4_Witness ==
    /\ pc = "subtract"
    /\ CurrentContent[2] = LettersLine
    /\ frame_list = <<1, 3>>
    /\ mean_list = <<<<7, 1>>, <<9, 1>>>>

\* C5: a zero baseline with a later net value never gets past the
\* normalization (a fatal error is raised instead), and no normalized value
\* and no written artifact holds an infinite or not-a-number value.
C5_ZeroBaselineIsFatal ==
    /\ (/\ pc \in AfterNormalize
        /\ Len(odd_minus_even) > number_of_initial_frames)
           => FirstThreeSum(odd_minus_even) # 0
    /\ pc \in AfterNormalize
           => \A j \in 1..Len(DeltaF_over_F0_list) : IsFinite(DeltaF_over_F0_list[j])
    /\ \A e \in graphsDir :
           \A j \in 1..Len(e[2][3]) : IsFinite(e[2][3][j])
    /\ \A e \in rootDir \cup dataDir :
           \A j \in 1..Len(e[2][2]) : IsFinite(e[2][2][j][2])

\* C6: the pass over a file with fewer than
\* 2 * (number_of_initial_frames + 1) parsed intensities ends in a fatal
\* error: it never reaches the writing of an artifact, never completes, and
\* the file gets no graph and no table.
C6_InsufficientDataIsFatal ==
    (Parsed /\ Len(mean_list) < 2 * (number_of_initial_frames + 1))
        => /\ ~HasArtifact(imaging_file)
           /\ pc \notin {"savefig", "write", "move", "loop", "done"}

\* C7: an intensity sequence of odd length is subtracted without an error,
\* the net signal having the length of the shorter channel and
\* net[i] = signal[i] - reference[i].
C7_OddLengthTruncates ==
    (Parsed /\ pc # "subtract" /\ Len(mean_list) % 2 = 1)
        => /\ error # "ValueError"
           /\ Len(odd_minus_even) = Min(Len(mean_list_odd), Len(mean_list_even))
           /\ \A i \in 1..Len(odd_minus_even) :
                  odd_minus_even[i] = RSub(mean_list_odd[i], mean_list_even[i])

\* The input files in the order of their names.
InputNames == {e[1] : e \in inputDir}

EntriesNamed(dir, name) == {e \in dir : e[1] = name}

\* C8: files are read one at a time in the order of their sorted names, the
\* files that have any artifact form a prefix of that order, a pass begins
\* only when every file opened before has its table in data_analysis and
\* none in the Results root, and once an execution has failed it opens no
\* further file and writes no artifact.
C8_SequentialAbortingBatch ==
    /\ [](/\ \A i \in 1..Len(opened) :
                 /\ opened[i] \in InputNames
                 /\ Cardinality({n \in InputNames : NameLess(n, opened[i])}) = i - 1
          /\ \A a, b \in InputNames :
                 (NameLess(a, b) /\ HasArtifact(b)) => HasArtifact(a)
          /\ \A n \in InputNames :
                 HasArtifact(n) => (run > 1 \/ \E i \in 1..Len(opened) : opened[i] = n))
    /\ [][/\ (Len(opened') = Len(opened) + 1)
               => \A i \in 1..Len(opened) :
                      /\ HasFile(dataDir, TableOf(opened[i]))
                      /\ ~HasFile(rootDir, TableOf(opened[i]))
          /\ pc = "crashed"
               => /\ Len(opened') <= Len(opened)
                  /\ pc' \in {"crashed", "start"}
                  /\ UNCHANGED <<rootDir, graphsDir, dataDir>>
          /\ (error' # "none" /\ pc' # "start") => pc' = "crashed"
         ]_vars

\* A pass failed on the second of three files after the first was completed.
C8_Witness ==
    /\ pc = "crashed"
    /\ run = 1
    /\ Cardinality(InputNames) = 3
    /\ Len(opened) = 2
    /\ HasFile(dataDir, TableOf(opened[1]))
    /\ ~HasArtifact(CsvName(3))

\* C9 as stated: a second execution after a completed one completes too,
\* and leaves every input file with one table and one graph holding the
\* second execution's output.
C9_RerunOverwrites ==
    (/\ run = 2 /\ outcomes = <<"done">> /\ InputNames # {}
     /\ pc \in {"done", "crashed"})
        => /\ pc = "done"
           /\ \A n \in InputNames :
                  /\ \E e \in dataDir : e[1] = TableOf(n) /\ e[2][1] = 2
                  /\ \E e \in graphsDir : e[1] = GraphOf(n) /\ e[2][1] = 2

\* C9 amended: artifacts are named only from an input file's base name, and
\* an execution after a completed one fails with FileExistsError at the
\* creation of Results before opening any file, so every input file keeps
\* exactly one table and one graph under those names, both holding the
\* first execution's output.
C9_RerunFailsAndKeepsArtifacts ==
    /\ \A e \in graphsDir : \E n \in InputNames : e[1] = GraphOf(n)
    /\ \A e \in rootDir \cup dataDir : \E n \in InputNames : e[1] = TableOf(n)
    /\ (run >= 2 /\ outcomes[1] = "done")
           => /\ pc \in {"start", "crashed"}
              /\ pc = "crashed" => error = "FileExistsError"
              /\ opened = <<>>
              /\ rootDir = {}
              /\ \A n \in InputNames :
                     /\ Cardinality(EntriesNamed(dataDir, TableOf(n))) = 1
                     /\ Cardinality(EntriesNamed(graphsDir, GraphOf(n))) = 1
                     /\ ContentOf(dataDir, TableOf(n))[1] = 1
                     /\ ContentOf(graphsDir, GraphOf(n))[1] = 1

C9_Witness ==
    /\ run = 2
    /\ outcomes = <<"done">>
    /\ pc = "crashed"
    /\ Cardinality(dataDir) = 2
    /\ Cardinality(graphsDir) = 2

\* C10: a table in the Results root or in data_analysis implies the same
\* file's graph in graphs, in every state, failed passes included; and when
\* an execution finishes every input file has its graph and its table in
\* data_analysis and the Results root holds no table.
C10_GraphBeforeTable ==
    /\ \A n \in InputNames :
           (HasFile(dataDir, TableOf(n)) \/ HasFile(rootDir, TableOf(n)))
               => HasFile(graphsDir, GraphOf(n))
    /\ pc = "done"
           => /\ rootDir = {}
              /\ \A n \in InputNames :
                     /\ HasFile(dataDir, TableOf(n))
                     /\ HasFile(graphsDir, GraphOf(n))

\* A pass failed between the saving of the graph and the move of the table,
\* after an earlier file was completed.
C10_Witness ==
    /\ pc = "crashed"
    /\ error = "OSError"
    /\ Cardinality(graphsDir) = 2
    /\ Cardinality(dataDir) = 1
    /\ Cardinality(rootDir) = 1

=============================================================================
